---- MODULE Spec2Model ----
(***************************************************************************)
(* State-machine model of the v1 bastion connector                         *)
(* (src/v1/connector.py, src/v1/ec2_utils.py, src/v1/bastion_cli.py).      *)
(*                                                                         *)
(* One behaviour is one invocation of the program.  Spec is the command    *)
(* line (`connect ssh` / `connect ssm`); SpecSSM is a direct call of the   *)
(* brokered-session methods start_interactive_ssm_session and              *)
(* run_ssm_command_and_exit on a ConnectorDefinition object; SpecEnsure    *)
(* is consecutive direct calls of ensure_instance_operational.             *)
(*                                                                         *)
(* Text (names, input lines) is a tuple of one-character strings, so that  *)
(* lower(), strip() and the substring test are computed, not assumed.      *)
(***************************************************************************)
EXTENDS Integers, Sequences, FiniteSets, TLC

VARIABLES
    service,          \* "ssh" | "ssm": the sub-command
    interactive,      \* --interactive-shell
    command,          \* --command: None or a command text
    bastion_name,     \* --bastion-name: None or a name fragment
    inventory,        \* provider: the instances, in listing order
    power,            \* provider: power state of each instance id
    public_ip,        \* provider: whether the instances have a public address
    pc,               \* position of the process
    exit_code,        \* process exit status, meaningful when pc = "done"
    self_bastion,     \* BastionDefinition.bastion
    name_arg,         \* find_instance_by_name's bastion_name argument
    instance_id,      \* the resolved instance id
    instance_state,   \* ensure_instance_operational's instance_state
    calls,            \* provider / transport / user-prompt calls, in order
    fault,            \* first failure of the environment seen by the run
    confirm_answer,   \* the user's answer to typer.confirm in stop_instance
    transport,        \* ssh_client.get_transport(): "none" | "active" | "inactive"
    now,              \* the wall clock (seconds since the process started)
    last_input_time,  \* the handlers' local last_input_time
    last_activity,    \* time of the last remote byte received or local line sent
    sent,             \* lines given to channel.send, in order
    session_end,      \* how the session ended
    pending_exc,      \* exception in flight while a finally block runs
    child,            \* the session-manager child process
    handler_ret,      \* return value of ssm_session_handler / ssm_command_handler
    cmd_status,       \* broker: status of the command invocation
    retry_count,      \* ssm_command_handler's retry_count
    polled,           \* statuses returned by get_command_invocation, in order
    exit_status,      \* run_ssh_command_and_exit's exit_status
    peer              \* a second, concurrent invocation on the same instance

vars == << service, interactive, command, bastion_name, inventory, power,
           public_ip, pc, exit_code, self_bastion, name_arg, instance_id,
           instance_state, calls, fault, confirm_answer, transport, now,
           last_input_time, last_activity, sent, session_end, pending_exc,
           child, handler_ret, cmd_status, retry_count, polled, exit_status,
           peer >>

(***************************************************************************)
(* Bounds of the model.                                                    *)
(***************************************************************************)
MaxSpans == 2      \* the clock runs up to MaxSpans timeout budgets
MaxSent == 2       \* lines forwarded to the remote channel
MaxPrompts == 1    \* interactive instance selections
MaxEnsureCalls == 2  \* consecutive calls of ensure_instance_operational

(***************************************************************************)
(* Program constants.                                                      *)
(***************************************************************************)
SshTimeout == 10 * 60
SsmTimeout == 60 * 60
timeouts == [ssh |-> SshTimeout, ssm |-> SsmTimeout]
max_retries == 12
wait_interval == 5
TimedOutCode == 0 - 1

(***************************************************************************)
(* Text.                                                                   *)
(***************************************************************************)
None == << "None" >>

Min(S) == CHOOSE x \in S : \A y \in S : x <= y
Max(S) == CHOOSE x \in S : \A y \in S : x >= y

LowerChar(c) ==
    CASE c = "A" -> "a" [] c = "B" -> "b" [] c = "D" -> "d" [] c = "E" -> "e"
      [] c = "I" -> "i" [] c = "L" -> "l" [] c = "S" -> "s" [] c = "T" -> "t"
      [] c = "X" -> "x" [] OTHER -> c

Lower(s) == [i \in 1..Len(s) |-> LowerChar(s[i])]

IsSpace(c) == c \in {" ", "\n", "\t"}

Strip(s) ==
    LET keep == {i \in 1..Len(s) : ~IsSpace(s[i])}
    IN  IF keep = {} THEN << >> ELSE SubSeq(s, Min(keep), Max(keep))

\* Python's `needle in hay` for str
Contains(needle, hay) ==
    \E i \in 0..(Len(hay) - Len(needle)) :
        SubSeq(hay, i + 1, i + Len(needle)) = needle

Count(seq, e) == Cardinality({i \in DOMAIN seq : seq[i] = e})

Has(seq, e) == \E i \in DOMAIN seq : seq[i] = e

\* the index of the first occurrence of e in seq, 0 when there is none
IndexOf(seq, e) ==
    IF Has(seq, e) THEN Min({i \in DOMAIN seq : seq[i] = e}) ELSE 0

\* sys.exit(n) and the status the parent process sees
ExitStatus(n) == n % 256

(***************************************************************************)
(* The provider's inventories and the user's texts drawn by Init / Next.   *)
(***************************************************************************)
NameDev == << "B", "a", "s", "-", "d" >>
NameDb == << "d", "b" >>
NameAs == << "a", "s" >>

\* one entry of response["Reservations"][..]["Instances"]: `tagged` says
\* whether the entry carries the "Tags" key, which the provider leaves out
\* for an instance without tags
Tag(key, value) == [Key |-> key, Value |-> value]

Named(id, name) ==
    [id |-> id, tagged |-> TRUE, tags |-> << Tag("Name", name) >>]

Untagged(id) == [id |-> id, tagged |-> FALSE, tags |-> << >>]

Inventories ==
    { << Named("i-1", NameDev) >>,
      << Named("i-1", NameDb), Named("i-2", NameDev) >>,
      << Untagged("i-1"), Named("i-2", NameDev) >> }

\* the inventories of a direct call of ensure_instance_operational: also a
\* name that is part of an earlier name, and an instance whose only tag is
\* not its name
EnsureInventories ==
    Inventories \cup
    { << Named("i-1", NameDev), Named("i-2", NameAs) >>,
      << [id |-> "i-1", tagged |-> TRUE, tags |-> << Tag("env", NameDev) >>],
         Named("i-2", NameDev) >> }

Fragments == { << "b", "A", "s" >>, << "x" >> }

\* with a fragment that is part of several names
EnsureFragments == Fragments \cup { << "S" >> }

CancelToken == << "e", "x", "i", "t" >>

CmdText == << "l", "s" >>

LineLs == << "l", "s", "\n" >>
LineExit == << "e", "x", "i", "t", "\n" >>
LineExitUpper == << " ", "E", "x", "I", "T", " ", "\n" >>
LineExitArg == << "e", "x", "i", "t", " ", "l", "s", "\n" >>
Lines == {LineLs, LineExit, LineExitUpper, LineExitArg}

PowerStates ==
    {"running", "stopped", "pending", "stopping", "shutting-down", "terminated"}

NoId == "none"

InstanceIds == {"i-1", "i-2"}

\* samples of the time one loop iteration takes
Elapsed(svc) ==
    IF svc = "ssh" THEN {0, timeouts[svc] \div 2}
    ELSE {timeouts[svc] \div 2}

ClockCap(svc) == MaxSpans * timeouts[svc] + MaxSpans

\* recv_exit_status(): the status the server sent (an unsigned 32-bit
\* number), or -1 when the server sent none
RemoteStatuses == {0, 1, 2, 256, 0 - 1}

(***************************************************************************)
(* Pure helpers of the handlers.                                           *)
(***************************************************************************)
KeyError == "KeyError"

\* line 51, for one instance: some tag is the Name tag and its value
\* contains the fragment, case-insensitively
NameMatches(name, instance) ==
    \E t \in DOMAIN instance.tags :
        /\ instance.tags[t].Key = "Name"
        /\ Contains(Lower(name), Lower(instance.tags[t].Value))

\* find_instance_by_name, lines 47-53: the scan in listing order ends at the
\* first instance without the "Tags" key, where line 50 raises KeyError, or
\* at the first instance whose Name tag matches
FirstMatch(name, inv) ==
    LET raises == {i \in 1..Len(inv) : ~inv[i].tagged}
        hits == {i \in 1..Len(inv) :
                    inv[i].tagged /\ NameMatches(name, inv[i])}
    IN  IF raises \cup hits = {} THEN NoId
        ELSE IF Min(raises \cup hits) \in raises THEN KeyError
        ELSE inv[Min(raises \cup hits)].id

\* lines 176-178, for one instance
RECURSIVE TagNames(_)
TagNames(tags) ==
    IF tags = << >> THEN << >>
    ELSE (IF Head(tags).Key = "Name" THEN << Head(tags).Value >> ELSE << >>)
         \o TagNames(Tail(tags))

\* list_instance_names, which raises KeyError at line 176 when an instance
\* has no "Tags" key
ListRaises(inv) == \E i \in 1..Len(inv) : ~inv[i].tagged

RECURSIVE ListInstanceNames(_)
ListInstanceNames(inv) ==
    IF inv = << >> THEN << >>
    ELSE TagNames(Head(inv).tags) \o ListInstanceNames(Tail(inv))

\* a test that also lets an instance on its way up pass
StateSupportedOrPending(state) == state \in {"running", "stopped", "pending"}

\* get_instance_state, line 81: the states it accepts
StateSupported(state) == state \in {"running", "stopped"}

\* a test that never starts the instance
NeedsStartNever(state) == FALSE

\* a test that starts the instance whatever its state
NeedsStartAlways(state) == TRUE

\* line 151
NeedsStart(state) == state = "stopped"

\* start_instance: the calls it makes, the power state it leaves, whether it
\* ends the process
\* a start_instance that repeats a failed request
StartCallsRetried(outcome) ==
    IF outcome = "request_fails"
    THEN << "start_instances", "start_instances" >>
    ELSE << "start_instances", "wait_running" >>

StartCalls(outcome) ==
    IF outcome = "request_fails" THEN << "start_instances" >>
    ELSE << "start_instances", "wait_running" >>

\* a stop after which the provider still reports the old state
StopLeavesState(confirm, outcome, p) == p

\* a start after which the provider still reports the old state
StartLeavesState(outcome, p) == p

StartPower(outcome, p) ==
    CASE outcome = "ok" -> "running"
      [] outcome = "wait_fails" -> "pending"
      [] OTHER -> p

\* a stop_instance that does not wait for the stopped state
StopCallsNoWait(confirm, outcome) ==
    << "stop_instance", "confirm_stop" >> \o
    (IF confirm THEN << "stop_instances" >> ELSE << >>)

\* stop_instance
StopCalls(confirm, outcome) ==
    << "stop_instance", "confirm_stop" >> \o
    ( IF ~confirm THEN << >>
      ELSE IF outcome = "request_fails" THEN << "stop_instances" >>
      ELSE << "stop_instances", "wait_stopped" >> )

\* a stop_instance that stops whatever the user answered
StopPowerIgnoresAnswer(confirm, outcome, p) ==
    IF outcome = "request_fails" THEN p
    ELSE IF outcome = "ok" THEN "stopped" ELSE "stopping"

StopPower(confirm, outcome, p) ==
    IF ~confirm \/ outcome = "request_fails" THEN p
    ELSE IF outcome = "ok" THEN "stopped" ELSE "stopping"

\* a stop_instance that ends the process only when the request fails
StopExitsOnRequestOnly(confirm, outcome) ==
    confirm /\ outcome = "request_fails"

\* a stop_instance that logs the provider's error and returns
StopExitsNever(confirm, outcome) == FALSE

StopExits(confirm, outcome) == confirm /\ outcome # "ok"

Outcomes == {"ok", "request_fails", "wait_fails"}

\* the most one call of channel.send takes: the rest of the remote side's
\* maximum packet size, here on the scale of the model's lines, so that the
\* longest of them does not fit
MaxPacket == 6

\* line 227: channel.send(command) transmits the part of the line that fits
\* and returns how much that was; the result is not looked at
Forwarded(line) == SubSeq(line, 1, Min({Len(line), MaxPacket}))

\* line 223: command.lower().strip() == 'exit'
IsExitLine(line) == Strip(Lower(line)) = CancelToken

\* a budget that never runs out
TimedOutNever(current_time, last, svc) == FALSE

\* lines 232 and 347: the timeout test
TimedOut(current_time, last, svc) == (current_time - last) > timeouts[svc]

\* a teardown that takes a lost transport for an open one
NothingToCloseOnlyNone(t) == t = "none"

\* line 239: the teardown's test of the transport
NothingToClose(t) == t = "none" \/ t # "active"

\* lines 56 and 82
NoCommandGiven(i, c) == i = FALSE /\ c = None

OneShotMode(i, c) == c # None /\ i = FALSE

InteractiveMode(i, c) == i = TRUE /\ c = None

Exit(code) ==
    /\ pc' = "done"
    /\ exit_code' = ExitStatus(code)

NoteFault(f) == fault' = IF fault = "none" THEN f ELSE fault

(***************************************************************************)
(* Initial states: the command line and the provider's state.              *)
(***************************************************************************)
Blank ==
    /\ exit_code = 0
    /\ self_bastion = NoId
    /\ name_arg = None
    /\ instance_state = "unknown"
    /\ calls = << >>
    /\ fault = "none"
    /\ confirm_answer = "none"
    /\ now = 0
    /\ last_input_time = 0
    /\ last_activity = 0
    /\ sent = << >>
    /\ session_end = "none"
    /\ pending_exc = "none"
    /\ child = "none"
    /\ handler_ret = 0
    /\ cmd_status = "none"
    /\ retry_count = 0
    /\ polled = << >>
    /\ exit_status = 0

Init ==
    /\ service \in {"ssh", "ssm"}
    /\ interactive \in BOOLEAN
    /\ command \in {None, CmdText}
    /\ bastion_name \in {None} \cup Fragments
    /\ inventory \in Inventories
    /\ \E s \in PowerStates : power = [i \in InstanceIds |-> s]
    /\ public_ip \in BOOLEAN
    /\ pc = "cli"
    /\ instance_id = NoId
    /\ transport = "none"
    /\ peer = "none"
    /\ Blank

(***************************************************************************)
(* connect ssh / connect ssm                                               *)
(***************************************************************************)
\* handle_ssh_interaction, lines 56-60
HandleSshInteraction ==
    /\ pc = "cli"
    /\ service = "ssh"
    /\ IF NoCommandGiven(interactive, command)
       THEN Exit(1) /\ NoteFault("usage")
       ELSE pc' = "validate" /\ UNCHANGED << exit_code, fault >>
    /\ UNCHANGED << peer, exit_status, service, interactive, command, bastion_name,
                    inventory,
                    power, public_ip, self_bastion, name_arg, instance_id, instance_state,
                    calls, confirm_answer, transport, now, last_input_time,
                    last_activity, sent, session_end, pending_exc, child,
                    handler_ret, cmd_status, retry_count, polled >>

\* handle_ssm_interaction, lines 82-86: the call of ensure_instance_operational
\* leaves out its required wait_ssh argument and raises TypeError
HandleSsmInteraction ==
    /\ pc = "cli"
    /\ service = "ssm"
    /\ IF NoCommandGiven(interactive, command)
       THEN Exit(1) /\ NoteFault("usage") /\ UNCHANGED pending_exc
       ELSE Exit(1) /\ pending_exc' = "TypeError" /\ UNCHANGED fault
    /\ UNCHANGED << peer, exit_status, service, interactive, command, bastion_name,
                    inventory,
                    power, public_ip, self_bastion, name_arg, instance_id, instance_state,
                    calls, confirm_answer, transport, now, last_input_time,
                    last_activity, sent, session_end, child, handler_ret,
                    cmd_status, retry_count, polled >>

(***************************************************************************)
(* ensure_instance_operational                                             *)
(***************************************************************************)
\* an ensure_instance_operational that goes on after a failed probe
ProbeAbortsNever(ok) == FALSE

\* line 144: `if not self.validate_aws_configuration(self.client)`
ProbeAborts(ok) == ~ok

\* lines 144-146 with validate_aws_configuration
ValidateAws ==
    /\ pc = "validate"
    /\ calls' = Append(calls, "describe_regions")
    /\ \E ok \in BOOLEAN :
         /\ IF ok THEN UNCHANGED fault ELSE NoteFault("probe")
         /\ IF ProbeAborts(ok)
            THEN Exit(1) /\ UNCHANGED name_arg
            ELSE pc' = "find" /\ name_arg' = bastion_name
                 /\ UNCHANGED exit_code
    /\ UNCHANGED << peer, exit_status, service, interactive, command, bastion_name,
                    inventory, power, public_ip, self_bastion, instance_id,
                    instance_state, confirm_answer, transport, now,
                    last_input_time, last_activity, sent, session_end,
                    pending_exc, child, handler_ret, cmd_status, retry_count,
                    polled >>

\* find_instance_by_name, lines 46-57 and 61
FindInstance ==
    /\ pc = "find"
    /\ LET found == IF name_arg # None THEN FirstMatch(name_arg, inventory)
                    ELSE NoId
           scan == IF name_arg # None THEN << "describe_instances" >>
                   ELSE << >>
       IN  IF found = KeyError
           THEN /\ calls' = calls \o scan
                /\ Exit(1)
                /\ NoteFault("KeyError")
                /\ pending_exc' = KeyError
                /\ UNCHANGED << self_bastion, instance_id >>
           ELSE IF found # NoId
           THEN /\ self_bastion' = found
                /\ instance_id' = found
                /\ calls' = calls \o scan
                /\ pc' = "get_state"
                /\ UNCHANGED << exit_code, fault, pending_exc >>
           ELSE IF self_bastion # NoId
           THEN /\ instance_id' = self_bastion
                /\ calls' = calls \o scan
                /\ pc' = "get_state"
                /\ UNCHANGED << self_bastion, exit_code, fault, pending_exc >>
           ELSE IF ListRaises(inventory)
           THEN /\ calls' = calls \o scan \o << "list_instance_names" >>
                /\ Exit(1)
                /\ NoteFault("KeyError")
                /\ pending_exc' = KeyError
                /\ UNCHANGED << self_bastion, instance_id >>
           ELSE /\ calls' = calls \o scan \o << "list_instance_names" >>
                /\ pc' = "select"
                /\ UNCHANGED << self_bastion, instance_id, exit_code, fault,
                                pending_exc >>
    /\ UNCHANGED << peer, exit_status, service, interactive, command, bastion_name,
                    inventory, power, public_ip, name_arg, instance_state,
                    confirm_answer, transport, now, last_input_time,
                    last_activity, sent, session_end, child, handler_ret,
                    cmd_status, retry_count, polled >>

\* select_instance, lines 196-210, and the recursive call of line 59
SelectInstance ==
    /\ pc = "select"
    /\ calls' = Append(calls, "prompt_select")
    /\ \E text \in {CancelToken} \cup Fragments
                   \cup {ListInstanceNames(inventory)[i] :
                            i \in 1..Len(ListInstanceNames(inventory))} :
         IF text = CancelToken
         THEN Exit(0) /\ NoteFault("cancel") /\ UNCHANGED name_arg
         ELSE /\ Count(calls, "prompt_select") < MaxPrompts
              /\ name_arg' = text
              /\ pc' = "find"
              /\ UNCHANGED << exit_code, fault >>
    /\ UNCHANGED << peer, exit_status, service, interactive, command, bastion_name,
                    inventory, power, public_ip, self_bastion, instance_id,
                    instance_state, confirm_answer, transport, now,
                    last_input_time, last_activity, sent, session_end,
                    pending_exc, child, handler_ret, cmd_status, retry_count,
                    polled >>

\* get_instance_state, lines 77-85, and the test of line 151
GetInstanceState ==
    /\ pc = "get_state"
    /\ calls' = Append(calls, "describe_instance_status")
    /\ IF ~StateSupported(power[instance_id])
       THEN Exit(1) /\ NoteFault("state") /\ UNCHANGED instance_state
       ELSE /\ instance_state' = power[instance_id]
            /\ pc' = IF NeedsStart(power[instance_id]) THEN "start"
                     ELSE "ensured"
            /\ UNCHANGED << exit_code, fault >>
    /\ UNCHANGED << peer, exit_status, service, interactive, command, bastion_name,
                    inventory,
                    power, public_ip, self_bastion, name_arg, instance_id,
                    confirm_answer, transport, now, last_input_time,
                    last_activity, sent, session_end, pending_exc, child,
                    handler_ret, cmd_status, retry_count, polled >>

\* start_instance, lines 100-109
StartInstance ==
    /\ pc = "start"
    /\ \E outcome \in Outcomes :
         /\ calls' = calls \o StartCalls(outcome)
         /\ power' = [power EXCEPT ![instance_id] = StartPower(outcome, @)]
         /\ IF outcome = "ok"
            THEN pc' = "wait_hint" /\ UNCHANGED << exit_code, fault >>
            ELSE Exit(1) /\ NoteFault("start")
    /\ UNCHANGED << peer, exit_status, service, interactive, command, bastion_name,
                    inventory,
                    public_ip, self_bastion, name_arg, instance_id, instance_state,
                    confirm_answer, transport, now, last_input_time,
                    last_activity, sent, session_end, pending_exc, child,
                    handler_ret, cmd_status, retry_count, polled >>

\* a grace sleep for every service
WaitsAlways(svc) == TRUE

\* line 154: `if service == ServiceType.SSH`
WaitsForSsh(svc) == svc = "ssh"

\* lines 154-157
WaitHint ==
    /\ pc = "wait_hint"
    /\ calls' = IF WaitsForSsh(service) THEN Append(calls, "sleep_wait_ssh")
                ELSE calls
    /\ pc' = "ensured"
    /\ UNCHANGED << peer, exit_status, service, interactive, command,
                    bastion_name, inventory, power, public_ip, exit_code,
                    self_bastion, name_arg, instance_id, instance_state,
                    fault, confirm_answer, transport, now, last_input_time,
                    last_activity, sent, session_end, pending_exc, child,
                    handler_ret, cmd_status, retry_count, polled >>

(***************************************************************************)
(* SSH                                                                     *)
(***************************************************************************)
\* a lookup that goes on without an address
NoAddressIgnored(has_ip) == FALSE

\* lines 157-163: reading "PublicIpAddress" raises when the instance has no
\* public address, and the except clause ends the process
NoAddress(has_ip) == ~has_ip

\* get_instance_public_ip, lines 156-163 (called at line 61)
GetPublicIp ==
    /\ pc = "ensured"
    /\ calls' = Append(calls, "describe_instances_ip")
    /\ IF public_ip THEN UNCHANGED fault ELSE NoteFault("no_ip")
    /\ IF NoAddress(public_ip)
       THEN Exit(1)
       ELSE pc' = "connect" /\ UNCHANGED exit_code
    /\ UNCHANGED << peer, exit_status, service, interactive, command, bastion_name,
                    inventory, power, public_ip, self_bastion, name_arg,
                    instance_id, instance_state, confirm_answer, transport,
                    now, last_input_time, last_activity, sent, session_end,
                    pending_exc, child, handler_ret, cmd_status, retry_count,
                    polled >>

\* ssh_client.connect: what it returns or raises
ConnectResults == {"ok", "NoValidConnectionsError", "SSHException", "OSError"}

\* a handler that treats only a refused connection as fatal
ConnectFailsOnlyRefused(result) == result = "NoValidConnectionsError"

\* lines 178-186: the two except clauses end the process, and so does any
\* other error, which nothing catches
ConnectFails(result) == result # "ok"

\* ssh_instance_connection_handler, lines 175-186
SshConnect ==
    /\ pc = "connect"
    /\ calls' = Append(calls, "ssh_connect")
    /\ \E result \in ConnectResults :
         /\ IF result \in {"NoValidConnectionsError", "SSHException"}
            THEN NoteFault("connect")
            ELSE IF result = "OSError" THEN NoteFault("connect_other")
            ELSE UNCHANGED fault
         /\ pending_exc' = IF result = "OSError" THEN result ELSE pending_exc
         /\ IF ConnectFails(result)
            THEN Exit(1) /\ UNCHANGED transport
            ELSE /\ transport' = "active"
                 /\ pc' = "dispatch"
                 /\ UNCHANGED exit_code
    /\ UNCHANGED << peer, exit_status, service, interactive, command, bastion_name,
                    inventory, power, public_ip, self_bastion, name_arg,
                    instance_id, instance_state, confirm_answer, now,
                    last_input_time, last_activity, sent, session_end, child,
                    handler_ret, cmd_status, retry_count, polled >>

\* handle_ssh_interaction, lines 64-67, falling off the end of the function
\* when neither test holds
SshDispatch ==
    /\ pc = "dispatch"
    /\ IF OneShotMode(interactive, command)
       THEN pc' = "one_shot" /\ UNCHANGED exit_code
       ELSE IF InteractiveMode(interactive, command)
       THEN pc' = "invoke_shell" /\ UNCHANGED exit_code
       ELSE Exit(0)
    /\ UNCHANGED << peer, exit_status, service, interactive, command, bastion_name,
                    inventory,
                    power, public_ip, self_bastion, name_arg, instance_id, instance_state,
                    calls, fault, confirm_answer, transport, now,
                    last_input_time, last_activity, sent, session_end,
                    pending_exc, child, handler_ret, cmd_status, retry_count,
                    polled >>

\* run_ssh_command_and_exit, lines 262-279
RunSshCommand ==
    /\ pc = "one_shot"
    /\ \E raised \in BOOLEAN, status \in RemoteStatuses :
         /\ calls' = calls \o << "exec_command" >> \o
                (IF ~raised /\ status = 0 THEN << "ssh_close" >>
                 ELSE << >>)
         /\ IF raised
            THEN /\ Exit(1)
                 /\ NoteFault("channel")
                 /\ session_end' = "channel_error"
                 /\ UNCHANGED << transport, exit_status >>
            ELSE IF status # 0
            THEN /\ exit_status' = status
                 /\ Exit(status)
                 /\ NoteFault("remote_status")
                 /\ session_end' = "nonzero"
                 /\ UNCHANGED transport
            ELSE /\ exit_status' = status
                 /\ Exit(0)
                 /\ session_end' = "completed"
                 /\ transport' = "none"
                 /\ UNCHANGED fault
    /\ UNCHANGED << peer, service, interactive, command, bastion_name, inventory,
                    power, public_ip, self_bastion, name_arg, instance_id,
                    instance_state, confirm_answer, now, last_input_time,
                    last_activity, sent, pending_exc, child, handler_ret,
                    cmd_status, retry_count, polled >>

\* ssh_interactive_session_handler, lines 200-204 and 235-237
InvokeShell ==
    /\ pc = "invoke_shell"
    /\ calls' = Append(calls, "invoke_shell")
    /\ \E result \in {"ok", "ChannelException"} :
         IF result = "ok"
         THEN /\ transport = "active"
              /\ last_input_time' = now
              /\ last_activity' = now
              /\ pc' = "loop"
              /\ UNCHANGED << fault, session_end, pending_exc >>
         ELSE /\ NoteFault("channel")
              /\ session_end' = "channel_error"
              /\ pending_exc' = "SystemExit"
              /\ pc' = "finally"
              /\ UNCHANGED << last_input_time, last_activity >>
    /\ UNCHANGED << peer, exit_status, service, interactive, command, bastion_name,
                    inventory,
                    power, public_ip, exit_code, self_bastion, name_arg,
                    instance_id, instance_state, confirm_answer, transport, now, sent, child,
                    handler_ret, cmd_status, retry_count, polled >>

\* the remote side or the network ends the SSH transport
TransportDrops ==
    /\ pc \in {"invoke_shell", "loop", "finally"}
    /\ transport = "active"
    /\ transport' = "inactive"
    /\ NoteFault("transport_lost")
    /\ UNCHANGED << peer, exit_status, service, interactive, command, bastion_name,
                    inventory,
                    power, public_ip, pc, exit_code, self_bastion, name_arg,
                    instance_id, instance_state, calls, confirm_answer, now, last_input_time,
                    last_activity, sent, session_end, pending_exc, child,
                    handler_ret, cmd_status, retry_count, polled >>

\* one iteration of the loop of lines 206-234; a raised error leaves the loop
\* for the except / finally clauses of lines 235-238
LastInputForgets(data, current_time, last) ==
    IF data THEN current_time ELSE 0

\* lines 210-219: last_input_time = current_time after each recv
LastInput(data, current_time, last) ==
    IF data THEN current_time ELSE last

SshLoopIteration ==
    /\ pc = "loop"
    /\ \E d \in Elapsed("ssh"), data \in BOOLEAN, stdin_ready \in BOOLEAN,
          line \in Lines, exit_status_ready \in BOOLEAN,
          raised \in {"none", "ChannelException", "OSError"} :
         LET current_time == now + d
             last == LastInput(data, current_time, last_input_time)
             is_exit == stdin_ready /\ IsExitLine(line)
             sends == stdin_ready /\ ~IsExitLine(line)
             ended == CASE is_exit -> "user_exit"
                        [] exit_status_ready -> "remote_done"
                        [] TimedOut(current_time, last, "ssh") -> "timeout"
                        [] OTHER -> "none"
         IN  /\ current_time <= ClockCap("ssh")
             /\ now' = current_time
             /\ IF raised # "none"
                THEN /\ NoteFault("channel")
                     /\ session_end' = IF raised = "ChannelException"
                                       THEN "channel_error" ELSE "error"
                     /\ pending_exc' = IF raised = "ChannelException"
                                       THEN "SystemExit" ELSE raised
                     /\ pc' = "finally"
                     /\ UNCHANGED << last_input_time, last_activity, sent >>
                ELSE /\ sends => Len(sent) < MaxSent
                     /\ last_input_time' = last
                     /\ last_activity' =
                            IF data \/ sends THEN current_time
                            ELSE last_activity
                     /\ sent' = IF sends THEN Append(sent, Forwarded(line))
                              ELSE sent
                     /\ session_end' = ended
                     /\ pc' = IF ended = "none" THEN "loop" ELSE "finally"
                     /\ UNCHANGED << fault, pending_exc >>
    /\ UNCHANGED << peer, exit_status, service, interactive, command, bastion_name,
                    inventory,
                    power, public_ip, exit_code, self_bastion, name_arg,
                    instance_id, instance_state, calls, confirm_answer, transport, child,
                    handler_ret, cmd_status, retry_count, polled >>

\* the finally clause, lines 238-247, and the end of the process
SshTeardown ==
    /\ pc = "finally"
    /\ IF NothingToClose(transport)
       THEN \* `return` inside finally discards the exception in flight
            /\ Exit(0)
            /\ pending_exc' = "none"
            /\ UNCHANGED << calls, power, confirm_answer, transport, fault >>
       ELSE \E confirm \in BOOLEAN, outcome \in Outcomes :
            /\ confirm \/ outcome = "ok"
            /\ calls' = calls \o << "ssh_close" >> \o StopCalls(confirm, outcome)
            /\ transport' = "none"
            /\ confirm_answer' = IF confirm THEN "yes" ELSE "no"
            /\ power' = [power EXCEPT
                           ![instance_id] = StopPower(confirm, outcome, @)]
            /\ IF confirm /\ outcome # "ok" THEN NoteFault("stop")
               ELSE UNCHANGED fault
            /\ IF StopExits(confirm, outcome)
               THEN Exit(1)
               ELSE Exit(IF pending_exc = "none" THEN 0 ELSE 1)
            /\ UNCHANGED pending_exc
    /\ UNCHANGED << peer, exit_status, service, interactive, command, bastion_name,
                    inventory,
                    public_ip, self_bastion, name_arg, instance_id, instance_state, now,
                    last_input_time, last_activity, sent, session_end, child,
                    handler_ret, cmd_status, retry_count, polled >>

Next ==
    \/ HandleSshInteraction
    \/ HandleSsmInteraction
    \/ ValidateAws
    \/ FindInstance
    \/ SelectInstance
    \/ GetInstanceState
    \/ StartInstance
    \/ WaitHint
    \/ GetPublicIp
    \/ SshConnect
    \/ SshDispatch
    \/ RunSshCommand
    \/ InvokeShell
    \/ TransportDrops
    \/ SshLoopIteration
    \/ SshTeardown

Spec == Init /\ [][Next]_vars

(***************************************************************************)
(* ensure_instance_operational(service, bastion_name, wait_ssh), called    *)
(* directly and MaxEnsureCalls times in a row on one object.               *)
(***************************************************************************)
InitEnsure ==
    /\ service \in {"ssh", "ssm"}
    /\ interactive = TRUE
    /\ command = None
    /\ bastion_name \in {None} \cup EnsureFragments
    /\ inventory \in EnsureInventories
    /\ \E s \in PowerStates : power = [i \in InstanceIds |-> s]
    /\ public_ip = TRUE
    /\ pc = "validate"
    /\ instance_id = NoId
    /\ transport = "none"
    /\ peer = "none"
    /\ Blank

\* line 159: the call returns, and the caller makes the next call
EnsureReturns ==
    /\ pc = "ensured"
    /\ pc' = IF Count(calls, "describe_regions") < MaxEnsureCalls
             THEN "validate" ELSE "returned"
    /\ UNCHANGED << peer, exit_status, service, interactive, command, bastion_name,
                    inventory, power, public_ip, exit_code, self_bastion,
                    name_arg, instance_id, instance_state, calls, fault,
                    confirm_answer, transport, now, last_input_time,
                    last_activity, sent, session_end, pending_exc, child,
                    handler_ret, cmd_status, retry_count, polled >>

NextEnsure ==
    \/ ValidateAws
    \/ FindInstance
    \/ SelectInstance
    \/ GetInstanceState
    \/ StartInstance
    \/ WaitHint
    \/ EnsureReturns

SpecEnsure == InitEnsure /\ [][NextEnsure]_vars

(***************************************************************************)
(* Two invocations of `connect ssh --interactive-shell` on one instance:   *)
(* the one the other specifications follow, and a second one that is in    *)
(* its interactive session when the first one starts.                      *)
(***************************************************************************)
\* the instance both invocations resolve
PeerInstance == FirstMatch(bastion_name, inventory)

InitPair ==
    /\ service = "ssh"
    /\ interactive = TRUE
    /\ command = None
    /\ bastion_name \in Fragments
    /\ inventory \in Inventories
    /\ PeerInstance \in InstanceIds
    /\ power = [i \in InstanceIds |-> "running"]
    /\ public_ip = TRUE
    /\ pc = "cli"
    /\ instance_id = NoId
    /\ transport = "none"
    /\ peer = "session"
    /\ Blank

\* the second invocation leaves its loop and runs the finally block of
\* lines 238-247 with stop_instance, lines 126-140
PeerTeardown ==
    /\ peer = "session"
    /\ \E confirm \in BOOLEAN, outcome \in Outcomes :
         /\ confirm \/ outcome = "ok"
         /\ power' = [power EXCEPT
                        ![PeerInstance] = StopPower(confirm, outcome, @)]
         /\ peer' = IF confirm /\ outcome = "ok" THEN "stopped" ELSE "done"
    /\ UNCHANGED << exit_status, service, interactive, command, bastion_name,
                    inventory, public_ip, pc, exit_code, self_bastion,
                    name_arg, instance_id, instance_state, calls, fault,
                    confirm_answer, transport, now, last_input_time,
                    last_activity, sent, session_end, pending_exc, child,
                    handler_ret, cmd_status, retry_count, polled >>

NextPair ==
    \/ HandleSshInteraction
    \/ ValidateAws
    \/ FindInstance
    \/ GetInstanceState
    \/ StartInstance
    \/ WaitHint
    \/ GetPublicIp
    \/ SshConnect
    \/ SshDispatch
    \/ InvokeShell
    \/ TransportDrops
    \/ SshLoopIteration
    \/ SshTeardown
    \/ PeerTeardown

SpecPair == InitPair /\ [][NextPair]_vars

(***************************************************************************)
(* SSM: the brokered session, entered by a direct call of                  *)
(* start_interactive_ssm_session(instance_id) or                           *)
(* run_ssm_command_and_exit(command, instance_id).                         *)
(***************************************************************************)
ChildCodes == {0, 1, 255}

Terminal == {"Success", "Failed", "Cancelled", "TimedOut"}

\* the broker's statuses of a command invocation, in the order it passes them
StatusRank ==
    [Pending |-> 1, Delayed |-> 2, InProgress |-> 3, Cancelling |-> 4,
     Success |-> 5, Failed |-> 5, Cancelled |-> 5, TimedOut |-> 5]

Statuses == DOMAIN StatusRank

\* line 399
IsSuccess(status) == status = "Success"

\* a failure test that lets a cancelled command be polled again
IsFailureButCancelled(status) == status \in {"Failed", "TimedOut"}

\* line 403
IsFailure(status) == status \in {"Failed", "Cancelled", "TimedOut"}

\* a loop test that is off by one
MayPollOffByOne(count) == count <= max_retries

\* line 393
MayPoll(count) == count < max_retries

\* a timeout branch that does not wait for the child
SsmTimeoutCallsNoWait == << "terminate" >>

\* lines 349-350: process.terminate(), process.wait()
SsmTimeoutCalls == << "terminate", "wait" >>

\* line 355
ChildFailed(code) == code # 0

InitSSM ==
    /\ service = "ssm"
    /\ \/ interactive = TRUE /\ command = None /\ pc = "ssm_interactive"
       \/ interactive = FALSE /\ command = CmdText /\ pc = "ssm_command"
    /\ bastion_name = None
    /\ inventory \in Inventories
    /\ \E s \in {"running", "stopped"} : power = [i \in InstanceIds |-> s]
    /\ public_ip \in BOOLEAN
    /\ instance_id \in {inventory[i].id : i \in 1..Len(inventory)}
    /\ transport = "none"
    /\ peer = "none"
    /\ Blank

\* ssm_session_handler, lines 338-342 and 360-362
SsmSpawn ==
    /\ pc = "ssm_interactive"
    /\ calls' = Append(calls, "popen")
    /\ last_input_time' = now
    /\ last_activity' = now
    /\ \E raised \in BOOLEAN :
         IF raised
         THEN Exit(1) /\ NoteFault("spawn") /\ UNCHANGED child
         ELSE /\ child' = "alive"
              /\ pc' = "ssm_loop"
              /\ UNCHANGED << exit_code, fault >>
    /\ UNCHANGED << peer, exit_status, service, interactive, command, bastion_name,
                    inventory,
                    power, public_ip, self_bastion, name_arg, instance_id, instance_state,
                    confirm_answer, transport, now, sent, session_end,
                    pending_exc, handler_ret, cmd_status, retry_count,
                    polled >>

\* one iteration of the loop of lines 343-353; `active` says whether the
\* user or the remote side used the session while the handler slept
SsmPollIteration ==
    /\ pc = "ssm_loop"
    /\ \E exited \in BOOLEAN, code \in ChildCodes, d \in Elapsed("ssm"),
          active \in BOOLEAN :
         IF exited
         THEN /\ child' = "exited"
              /\ handler_ret' = code
              /\ pc' = "ssm_after"
              /\ UNCHANGED << calls, now, last_activity, session_end >>
         ELSE IF TimedOut(now, last_input_time, "ssm")
         THEN /\ calls' = calls \o SsmTimeoutCalls
              /\ child' = "terminated"
              /\ handler_ret' = TimedOutCode
              /\ session_end' = "timeout"
              /\ pc' = "ssm_return"
              /\ UNCHANGED << now, last_activity >>
         ELSE /\ now + d <= ClockCap("ssm")
              /\ now' = now + d
              /\ last_activity' = IF active THEN now + d ELSE last_activity
              /\ UNCHANGED << calls, child, handler_ret, session_end, pc >>
    /\ UNCHANGED << peer, exit_status, service, interactive, command, bastion_name,
                    inventory,
                    power, public_ip, exit_code, self_bastion, name_arg,
                    instance_id, instance_state, fault, confirm_answer, transport,
                    last_input_time, sent, pending_exc, cmd_status,
                    retry_count, polled >>

\* ssm_session_handler, lines 355-359
SsmAfterLoop ==
    /\ pc = "ssm_after"
    /\ IF ChildFailed(handler_ret)
       THEN /\ pc' = "ssm_return"
            /\ session_end' = "nonzero"
            /\ NoteFault("child_status")
            /\ UNCHANGED << calls, power, confirm_answer, exit_code >>
       ELSE \E confirm \in BOOLEAN, outcome \in Outcomes :
            /\ confirm \/ outcome = "ok"
            /\ calls' = calls \o StopCalls(confirm, outcome)
            /\ confirm_answer' = IF confirm THEN "yes" ELSE "no"
            /\ power' = [power EXCEPT
                           ![instance_id] = StopPower(confirm, outcome, @)]
            /\ session_end' = "completed"
            /\ IF confirm /\ outcome # "ok" THEN NoteFault("stop")
               ELSE UNCHANGED fault
            /\ IF StopExits(confirm, outcome)
               THEN Exit(1)
               ELSE pc' = "ssm_return" /\ UNCHANGED exit_code
    /\ UNCHANGED << peer, exit_status, service, interactive, command, bastion_name,
                    inventory,
                    public_ip, self_bastion, name_arg, instance_id, instance_state, transport,
                    now, last_input_time, last_activity, sent, pending_exc,
                    child, handler_ret, cmd_status, retry_count, polled >>

\* start_interactive_ssm_session, lines 295-301
StartInteractiveExit ==
    /\ pc = "ssm_return"
    /\ Exit(handler_ret)
    /\ UNCHANGED << peer, exit_status, service, interactive, command, bastion_name,
                    inventory,
                    power, public_ip, self_bastion, name_arg, instance_id, instance_state,
                    calls, fault, confirm_answer, transport, now,
                    last_input_time, last_activity, sent, session_end,
                    pending_exc, child, handler_ret, cmd_status, retry_count,
                    polled >>

\* ssm_command_handler, lines 380-391
SendCommand ==
    /\ pc = "ssm_command"
    /\ calls' = Append(calls, "send_command")
    /\ \E raised \in BOOLEAN :
         IF raised
         THEN Exit(1) /\ NoteFault("send") /\ UNCHANGED << cmd_status, retry_count >>
         ELSE /\ cmd_status' = "Pending"
              /\ retry_count' = 0
              /\ pc' = "ssm_poll"
              /\ UNCHANGED << exit_code, fault >>
    /\ UNCHANGED << peer, exit_status, service, interactive, command, bastion_name,
                    inventory,
                    power, public_ip, self_bastion, name_arg, instance_id, instance_state,
                    confirm_answer, transport, now, last_input_time,
                    last_activity, sent, session_end, pending_exc, child,
                    handler_ret, polled >>

\* the broker moves the command invocation on
BrokerAdvance ==
    /\ pc = "ssm_poll"
    /\ cmd_status \notin Terminal
    /\ \E next \in Statuses :
         /\ StatusRank[next] > StatusRank[cmd_status]
         /\ cmd_status' = next
    /\ UNCHANGED << peer, exit_status, service, interactive, command, bastion_name,
                    inventory,
                    power, public_ip, pc, exit_code, self_bastion, name_arg,
                    instance_id, instance_state, calls, fault, confirm_answer, transport, now,
                    last_input_time, last_activity, sent, session_end,
                    pending_exc, child, handler_ret, retry_count, polled >>

\* one turn of the loop of lines 393-409, or the fall-through of lines 411-412
PollCommand ==
    /\ pc = "ssm_poll"
    /\ IF MayPoll(retry_count)
       THEN /\ polled' = Append(polled, cmd_status)
            /\ IF IsSuccess(cmd_status)
               THEN /\ handler_ret' = 0
                    /\ session_end' = "completed"
                    /\ pc' = "ssm_cmd_return"
                    /\ UNCHANGED << calls, now, retry_count, fault >>
               ELSE IF IsFailure(cmd_status)
               THEN /\ handler_ret' = 1
                    /\ session_end' = "nonzero"
                    /\ NoteFault("command_status")
                    /\ pc' = "ssm_cmd_return"
                    /\ UNCHANGED << calls, now, retry_count >>
               ELSE /\ calls' = Append(calls, "sleep")
                    /\ now' = now + wait_interval
                    /\ retry_count' = retry_count + 1
                    /\ UNCHANGED << handler_ret, session_end, pc, fault >>
       ELSE /\ handler_ret' = 1
            /\ session_end' = "poll_timeout"
            /\ pc' = "ssm_cmd_return"
            /\ UNCHANGED << calls, now, retry_count, polled, fault >>
    /\ UNCHANGED << peer, exit_status, service, interactive, command, bastion_name,
                    inventory,
                    power, public_ip, exit_code, self_bastion, name_arg,
                    instance_id, instance_state, confirm_answer, transport, last_input_time,
                    last_activity, sent, pending_exc, child, cmd_status >>

\* run_ssm_command_and_exit, lines 316-322
RunSsmCommandExit ==
    /\ pc = "ssm_cmd_return"
    /\ Exit(handler_ret)
    /\ UNCHANGED << peer, exit_status, service, interactive, command, bastion_name,
                    inventory,
                    power, public_ip, self_bastion, name_arg, instance_id, instance_state,
                    calls, fault, confirm_answer, transport, now,
                    last_input_time, last_activity, sent, session_end,
                    pending_exc, child, handler_ret, cmd_status, retry_count,
                    polled >>

NextSSM ==
    \/ SsmSpawn
    \/ SsmPollIteration
    \/ SsmAfterLoop
    \/ StartInteractiveExit
    \/ SendCommand
    \/ BrokerAdvance
    \/ PollCommand
    \/ RunSsmCommandExit

SpecSSM == InitSSM /\ [][NextSSM]_vars

(***************************************************************************)
(* The interactive loops left alone: the user types nothing, the remote    *)
(* side never signals completion, the broker's child never exits, and the  *)
(* remote side's last data arrives early enough for the clock bound to     *)
(* show the rest of the budget.                                            *)
(***************************************************************************)
\* the longest time one turn of a loop takes: select's 0.1 s at line 207,
\* time.sleep(1) at line 353
Quantum(svc) == Max(Elapsed(svc))

LastDataBy == ClockCap("ssh") - timeouts["ssh"] - Quantum("ssh")

InitIdle ==
    /\ interactive = TRUE
    /\ command = None
    /\ \/ service = "ssh" /\ Init
       \/ service = "ssm" /\ pc = "ssm_interactive" /\ InitSSM

\* lines 206-234 when select() finds stdin silent and waits its time out,
\* exit_status_ready() is False and nothing raises
SshIdleIteration ==
    /\ SshLoopIteration
    /\ now' > now
    /\ sent' = sent
    /\ session_end' \in {"none", "timeout"}
    /\ last_input_time' # last_input_time => now' <= LastDataBy

\* lines 343-353 when process.poll() returns None
SsmIdleIteration ==
    /\ SsmPollIteration
    /\ child' # "exited"

NextIdle ==
    \/ HandleSshInteraction
    \/ ValidateAws
    \/ FindInstance
    \/ SelectInstance
    \/ GetInstanceState
    \/ StartInstance
    \/ WaitHint
    \/ GetPublicIp
    \/ SshConnect
    \/ SshDispatch
    \/ InvokeShell
    \/ TransportDrops
    \/ SshIdleIteration
    \/ SshTeardown
    \/ SsmSpawn
    \/ SsmIdleIteration
    \/ StartInteractiveExit

\* the process keeps running: a loop that can take a turn takes it
SpecIdle ==
    /\ InitIdle
    /\ [][NextIdle]_vars
    /\ WF_vars(SshIdleIteration)
    /\ WF_vars(SsmIdleIteration)

(***************************************************************************)
(* Properties.                                                             *)
(***************************************************************************)
\* the run built a transport session: an SSH shell or command, a broker
\* child process or a broker command
SessionReached ==
    \/ Has(calls, "invoke_shell")
    \/ Has(calls, "exec_command")
    \/ Has(calls, "popen")
    \/ Has(calls, "send_command")

\* C1: every invocation that reaches Session-Active makes exactly one stop
\* attempt (one call of stop_instance) before the process ends, whatever the
\* session's outcome.
C1_ExactlyOneStopAttempt ==
    (pc = "done" /\ SessionReached) => Count(calls, "stop_instance") = 1

\* the scenario of C2: `connect ssh --interactive-shell --bastion-name N`,
\* N matches, the instance was found stopped, the connect succeeded, and
\* the first input line was `exit`; nothing in the environment failed
C2_Scenario ==
    /\ pc = "done"
    /\ service = "ssh"
    /\ InteractiveMode(interactive, command)
    /\ bastion_name # None
    /\ FirstMatch(bastion_name, inventory) # NoId
    /\ instance_state = "stopped"
    /\ session_end = "user_exit"
    /\ sent = << >>
    /\ fault = "none"

C3_SshClosedOnEveryExit ==
    (pc = "done" /\ (Has(calls, "invoke_shell") \/ Has(calls, "exec_command")))
        => transport # "active"

\* C4: the SSH interactive loop never ends with the timeout outcome while
\* less than the budget has passed since the last activity, where activity
\* is a remote byte received or a local line sent to the channel.
C4_TimeoutOnlyWhenIdle ==
    (service = "ssh" /\ session_end = "timeout")
        => now - last_activity >= SshTimeout

\* C5: the SSM interactive timeout is an idle timeout: the child is
\* terminated for timeout only when no activity was seen for the budget.
C5_SsmTimeoutIsIdle ==
    (service = "ssm" /\ session_end = "timeout")
        => now - last_activity > SsmTimeout

\* C6: on the idle-timeout path ssh_interactive_session_handler issues no
\* stop request and no stop confirmation prompt.
C6_TimeoutLeavesInstance ==
    (pc = "done" /\ service = "ssh" /\ session_end = "timeout")
        => /\ ~Has(calls, "confirm_stop")
           /\ ~Has(calls, "stop_instances")

\* C7: when the SSM session exceeds its budget with the child still alive,
\* ssm_session_handler terminates the child, then waits for it, returns -1
\* without raising and issues no stop request.
C7_SsmTimeoutTerminatesChild ==
    (service = "ssm" /\ session_end = "timeout") =>
        /\ child = "terminated"
        /\ Count(calls, "terminate") = 1
        /\ Count(calls, "wait") = 1
        /\ IndexOf(calls, "terminate") < IndexOf(calls, "wait")
        /\ handler_ret = 0 - 1
        /\ pending_exc = "none"
        /\ fault = "none"
        /\ pc \in {"ssm_return", "done"}
        /\ ~Has(calls, "stop_instance")
        /\ ~Has(calls, "stop_instances")
        /\ pc = "done" => exit_code = ExitStatus(0 - 1)

C7_Witness ==
    /\ pc = "done"
    /\ session_end = "timeout"
    /\ child = "terminated"
    /\ now - last_input_time > SsmTimeout

\* C8 as stated: a child that exits on its own with code c: c # 0 gives
\* process exit code c and no stop attempt; c = 0 gives a stop attempt after
\* the child's exit and process exit code 0.
C8_ChildExitCode ==
    (pc = "done" /\ child = "exited") =>
        /\ handler_ret # 0 =>
               /\ exit_code = handler_ret
               /\ ~Has(calls, "stop_instance")
        /\ handler_ret = 0 =>
               /\ Count(calls, "stop_instance") = 1
               /\ IndexOf(calls, "popen") < IndexOf(calls, "stop_instance")
               /\ exit_code = 0

\* C8 as amended: as stated, but for c = 0 the process exit code is 0 only
\* when the stop attempt did not fail; when the confirmed stop fails at the
\* provider the process exit code is 1.
C8_ChildExitCodeUnlessStopFails ==
    (pc = "done" /\ child = "exited") =>
        /\ handler_ret # 0 =>
               /\ exit_code = handler_ret
               /\ ~Has(calls, "stop_instance")
        /\ handler_ret = 0 =>
               /\ Count(calls, "stop_instance") = 1
               /\ IndexOf(calls, "popen") < IndexOf(calls, "stop_instance")
               /\ exit_code = IF fault = "stop" THEN 1 ELSE 0
               /\ fault = "stop" => confirm_answer = "yes"

C8_Witness ==
    /\ pc = "done"
    /\ child = "exited"
    /\ handler_ret = 0
    /\ fault = "stop"
    /\ exit_code = 1

\* C9: ssm_command_handler never makes a 13th status poll; when no poll saw
\* a terminal status it made exactly 12 polls, each followed by a 5 s wait,
\* and returns 1.
C9_PollsBounded ==
    /\ Len(polled) <= max_retries
    /\ (pc \in {"ssm_cmd_return", "done"} /\ Has(calls, "send_command")
        /\ fault # "send" /\ \A i \in DOMAIN polled : polled[i] \notin Terminal)
           => /\ Len(polled) = 12
              /\ Count(calls, "sleep") = 12
              /\ now = 12 * 5
              /\ handler_ret = 1
              /\ pc = "done" => exit_code = 1

C9_Witness ==
    /\ pc = "done"
    /\ session_end = "poll_timeout"
    /\ Len(polled) = 12
    /\ \A i \in DOMAIN polled : polled[i] \notin Terminal

\* C10: `connect ssm --command CMD --bastion-name N`, N matching an
\* instance, nothing failing and the broker reporting Success on the first
\* status poll: exactly one poll is made and the process exits with code 0.
C10_SsmOneShotSuccess ==
    ( /\ pc = "done"
      /\ service = "ssm"
      /\ OneShotMode(interactive, command)
      /\ bastion_name # None
      /\ FirstMatch(bastion_name, inventory) # NoId
      /\ fault = "none"
      /\ (polled # << >> => polled[1] = "Success") )
        => /\ Len(polled) = 1
           /\ exit_code = 0

\* the remote command of a one-shot SSH run has ended with a status
OneShotEnded ==
    /\ pc = "done"
    /\ service = "ssh"
    /\ session_end \in {"completed", "nonzero"}
    /\ Has(calls, "exec_command")

\* C11: in SSH one-shot mode the process exit code is the remote command's
\* exit status: 0 for status 0, s for every status s # 0, so that a non-zero
\* status is never reported as 0 and becomes 1 only when s is 1.
C11_ExitCodeMirrorsRemote ==
    OneShotEnded =>
        /\ exit_code = exit_status
        /\ exit_status # 0 => exit_code # 0
        /\ exit_code = 1 => exit_status = 1

\* C12: ssh_client.connect is called at most once per invocation; when it
\* raises NoValidConnectionsError or SSHException the process ends with
\* exit code 1, no shell and no command was opened, no stop was attempted,
\* and the instance is still in the running state ensure_instance_operational
\* left it in.
C12_ConnectFailureIsFatal ==
    /\ Count(calls, "ssh_connect") <= 1
    /\ fault = "connect" =>
           /\ pc = "done"
           /\ exit_code = 1
           /\ Count(calls, "ssh_connect") = 1
           /\ transport = "none"
           /\ ~Has(calls, "invoke_shell")
           /\ ~Has(calls, "exec_command")
           /\ ~Has(calls, "stop_instance")
           /\ ~Has(calls, "stop_instances")
           /\ power[instance_id] = "running"

C12_Witness ==
    /\ pc = "done"
    /\ fault = "connect"
    /\ instance_state = "stopped"
    /\ Has(calls, "start_instances")

\* neither --interactive-shell nor --command, or both of them
NotExactlyOneMode ==
    ~InteractiveMode(interactive, command) /\ ~OneShotMode(interactive, command)

\* C13: an invocation of connect ssh or connect ssm that gives neither or
\* both of --interactive-shell and --command makes no start request, no SSH
\* connect and no broker call, and, unless the user cancels it first, ends
\* with exit code 1.
C13_ExactlyOneModeRequired ==
    NotExactlyOneMode =>
        /\ ~Has(calls, "start_instances")
        /\ ~Has(calls, "ssh_connect")
        /\ ~Has(calls, "popen")
        /\ ~Has(calls, "send_command")
        /\ (pc = "done" /\ fault # "cancel") => exit_code = 1

\* C14: describe_regions is the first call of every run that makes a call,
\* so no instance query, start, stop or session call precedes it; when the
\* probe fails the run ends there with exit code 1, having made no other
\* call and resolved no instance.
C14_ProbeFirst ==
    /\ calls # << >> => calls[1] = "describe_regions"
    /\ fault = "probe" =>
           /\ pc = "done"
           /\ exit_code = 1
           /\ calls = << "describe_regions" >>
           /\ self_bastion = NoId
           /\ instance_id = NoId

C14_Witness ==
    /\ pc = "done"
    /\ fault = "probe"
    /\ calls = << "describe_regions" >>

\* the instances, by place in the listing, whose Name tag contains the
\* fragment F when letter case is ignored
Matching(F, inv) ==
    {i \in 1..Len(inv) :
        \E t \in DOMAIN inv[i].tags :
            /\ inv[i].tags[t].Key = "Name"
            /\ Contains(Lower(F), Lower(inv[i].tags[t].Value))}

\* find_instance_by_name has run on the fragment of the command line
FirstScanDone ==
    Has(calls, "describe_instances") \/ Has(calls, "list_instance_names")

\* C15: for a fragment F that matches the Name tag of one instance,
\* find_instance_by_name(F) returns that instance's id without prompting;
\* when F matches several instances it returns the first of them in listing
\* order.
C15_FragmentResolvesFirstMatch ==
    ( /\ bastion_name # None
      /\ Matching(bastion_name, inventory) # {}
      /\ FirstScanDone )
        => /\ instance_id = inventory[Min(Matching(bastion_name, inventory))].id
           /\ ~Has(calls, "prompt_select")
           /\ pc # "select"

\* C16: when the fragment is absent or matches no Name tag,
\* find_instance_by_name goes on to the interactive selection; when the
\* user enters the cancel token there, the invocation ends with exit code 0
\* and has made no start, stop or session call.
C16_FallsThroughToSelection ==
    /\ ( /\ FirstScanDone
         /\ bastion_name = None \/ Matching(bastion_name, inventory) = {} )
           => pc = "select" \/ Has(calls, "prompt_select")
    /\ fault = "cancel" =>
           /\ pc = "done"
           /\ exit_code = 0
           /\ ~Has(calls, "start_instances")
           /\ ~Has(calls, "stop_instance")
           /\ ~Has(calls, "stop_instances")
           /\ ~SessionReached
           /\ ~Has(calls, "ssh_connect")

\* the names the selection presents
Presented(inv) ==
    {ListInstanceNames(inv)[i] : i \in 1..Len(ListInstanceNames(inv))}

\* the instance id carries the Name tag N
HasNameTag(id, N, inv) ==
    \E i \in 1..Len(inv) :
        /\ inv[i].id = id
        /\ \E t \in DOMAIN inv[i].tags :
               inv[i].tags[t].Key = "Name" /\ inv[i].tags[t].Value = N

\* C17: after the user selected a presented name N, the re-entered
\* find_instance_by_name(N) does not prompt again and returns the id of the
\* instance whose Name tag is N.
C17_SelectionResolvesToSelected ==
    ( /\ Has(calls, "prompt_select")
      /\ fault # "cancel"
      /\ name_arg \in Presented(inventory)
      /\ pc # "find" )
        => /\ pc # "select"
           /\ Count(calls, "prompt_select") = 1
           /\ HasNameTag(instance_id, name_arg, inventory)

\* C18: when get_instance_state reported the instance running,
\* ensure_instance_operational makes no start request, no wait for the
\* provider and no wait-hint sleep, and goes straight on to return the id of
\* the resolved instance.
C18_RunningNeedsNoStart ==
    instance_state = "running" =>
        /\ ~Has(calls, "start_instances")
        /\ ~Has(calls, "wait_running")
        /\ ~Has(calls, "sleep_wait_ssh")
        /\ pc \notin {"get_state", "start", "wait_hint"}
        /\ instance_id # NoId
        /\ instance_id = self_bastion

C18_Witness ==
    /\ pc = "ensured"
    /\ instance_state = "running"
    /\ calls[Len(calls)] = "describe_instance_status"

\* C19: when get_instance_state reported the instance stopped,
\* ensure_instance_operational makes one start request and returns only
\* after the provider's wait for the running state has succeeded; called
\* again in a row it finds the instance running and makes no further start
\* request.
C19_StoppedStartsOnce ==
    /\ Count(calls, "start_instances") <= 1
    /\ (instance_state = "stopped" /\ pc \in {"wait_hint", "ensured"}) =>
           /\ Count(calls, "start_instances") = 1
           /\ Count(calls, "wait_running") = 1
           /\ IndexOf(calls, "start_instances") < IndexOf(calls, "wait_running")
           /\ power[instance_id] = "running"
    /\ (pc = "returned" /\ Has(calls, "start_instances")) =>
           /\ instance_state = "running"
           /\ power[instance_id] = "running"
           /\ Count(calls, "describe_instance_status") = MaxEnsureCalls

C19_Witness ==
    /\ pc = "returned"
    /\ Count(calls, "start_instances") = 1
    /\ Count(calls, "describe_instance_status") = MaxEnsureCalls

\* C20: get_instance_state only ever returns running or stopped; for every
\* other state the provider reports, the process ends with exit code 1
\* after that one query, and the invocation has made no start, stop or
\* session call.
C20_UnsupportedStateIsFatal ==
    /\ instance_state \in {"unknown", "running", "stopped"}
    /\ (Has(calls, "describe_instance_status") /\ instance_state = "unknown")
           => fault = "state"
    /\ fault = "state" =>
           /\ pc = "done"
           /\ exit_code = 1
           /\ power[instance_id] \notin {"running", "stopped"}
           /\ Count(calls, "describe_instance_status") = 1
           /\ ~Has(calls, "start_instances")
           /\ ~Has(calls, "stop_instance")
           /\ ~Has(calls, "stop_instances")
           /\ ~Has(calls, "ssh_connect")
           /\ ~SessionReached

C20_Witness ==
    /\ pc = "done"
    /\ fault = "state"
    /\ power[instance_id] = "terminated"

\* stop_instance was called by ssm_session_handler and returned True
StopReturned ==
    /\ Has(calls, "stop_instance")
    /\ pc = "ssm_return" \/ (pc = "done" /\ exit_code = 0)

C22_NoPublicIpIsFatal ==
    /\ service = "ssm" => ~Has(calls, "describe_instances_ip")
    /\ (Has(calls, "describe_instances_ip") /\ ~public_ip) =>
           /\ pc = "done"
           /\ exit_code = 1
           /\ calls[Len(calls)] = "describe_instances_ip"
           /\ ~Has(calls, "ssh_connect")
           /\ ~Has(calls, "stop_instance")
           /\ ~Has(calls, "stop_instances")
           /\ transport = "none"
           /\ Has(calls, "start_instances") => power[instance_id] = "running"

C22_Witness ==
    /\ pc = "done"
    /\ ~public_ip
    /\ Has(calls, "describe_instances_ip")
    /\ Has(calls, "start_instances")

\* a stop request was made and the instance did not reach the stopped state:
\* the request or the wait for it failed
StopFailed ==
    /\ Has(calls, "stop_instances")
    /\ power[instance_id] # "stopped"

\* C23: when the stop request or the wait for the stopped state fails in
\* the teardown, the invocation ends there with a non-zero exit code, and
\* the stop was attempted and requested once only.
C23_StopFailureIsFatal ==
    StopFailed =>
        /\ pc = "done"
        /\ exit_code # 0
        /\ Count(calls, "stop_instance") = 1
        /\ Count(calls, "stop_instances") = 1
        /\ Count(calls, "wait_stopped") <= 1
        /\ calls[Len(calls)] \in {"stop_instances", "wait_stopped"}

C23_Witness ==
    /\ pc = "done"
    /\ StopFailed
    /\ power[instance_id] = "stopping"
    /\ session_end = "user_exit"
    /\ exit_code = 1

\* the calls that are made once at most
IssuedOnce ==
    \A c \in {"start_instances", "stop_instances", "ssh_connect", "popen",
              "send_command"} : Count(calls, c) <= 1

\* for each fatal condition, the calls that can have met it
FailingCalls ==
    [probe |-> {"describe_regions"},
     KeyError |-> {"describe_instances", "list_instance_names"},
     state |-> {"describe_instance_status"},
     start |-> {"start_instances", "wait_running"},
     no_ip |-> {"describe_instances_ip"},
     connect |-> {"ssh_connect"},
     connect_other |-> {"ssh_connect"},
     channel |-> {"exec_command", "invoke_shell"},
     stop |-> {"stop_instances", "wait_stopped"},
     spawn |-> {"popen"},
     send |-> {"send_command"}]

\* the calls made after the shell was opened
AfterShell == SubSeq(calls, IndexOf(calls, "invoke_shell") + 1, Len(calls))

\* the calls of the finally block of ssh_interactive_session_handler
TeardownCalls ==
    { << "ssh_close" >> \o StopCalls(confirm, outcome) :
        confirm \in BOOLEAN, outcome \in Outcomes }

\* C24 as stated: start, stop, SSH connect, session spawn and SendCommand
\* are each issued once at most, and after a fatal condition no further
\* provider or transport call is made: the last call of the run is the
\* one that met the condition.
C24_NothingRetried ==
    /\ IssuedOnce
    /\ fault \in DOMAIN FailingCalls =>
           calls[Len(calls)] \in FailingCalls[fault]

\* C24 as amended: as stated, but a channel error of the SSH interactive
\* session is followed, when the process ends, by the calls of the
\* handler's teardown if the transport is still active then.
C24_NothingRetriedButTeardown ==
    /\ IssuedOnce
    /\ (fault \in DOMAIN FailingCalls /\ ~(fault = "channel" /\ pc = "done"))
           => calls[Len(calls)] \in FailingCalls[fault]
    /\ (fault = "channel" /\ pc = "done") =>
           \/ calls[Len(calls)] \in FailingCalls[fault]
           \/ /\ InteractiveMode(interactive, command)
              /\ AfterShell \in TeardownCalls

C24_Witness ==
    /\ pc = "done"
    /\ fault = "channel"
    /\ Has(calls, "invoke_shell")
    /\ Has(calls, "stop_instances")

\* C25: nothing keeps one invocation from stopping the instance while the
\* other is in its session: the confirmed stop of the second invocation
\* takes effect in every state of the first one, and leaves the first
\* invocation's transport and position as they were.
C25_StopIgnoresOtherSession ==
    [][ (peer = "session" /\ peer' = "stopped") =>
            /\ power'[PeerInstance] = "stopped"
            /\ transport' = transport
            /\ pc' = pc ]_vars

\* one invocation has stopped the instance while the session of the other
\* is still active
C25_Witness ==
    /\ peer = "stopped"
    /\ pc = "loop"
    /\ transport = "active"
    /\ instance_id = PeerInstance
    /\ power[instance_id] = "stopped"

\* C26: an SSH connect or a session call is made only after an instance id
\* was resolved and the instance was reported running, or was reported
\* stopped and the wait for its start has succeeded; when
\* ensure_instance_operational fails, the invocation ends with exit code 1
\* and makes no connect, no session call and no stop attempt.
C26_PhasesInOrder ==
    /\ (Has(calls, "ssh_connect") \/ SessionReached) =>
           /\ instance_id # NoId
           /\ Has(calls, "ssh_connect")
           /\ Has(calls, "describe_instances")
           /\ IndexOf(calls, "describe_instances")
                  < IndexOf(calls, "describe_instance_status")
           /\ IndexOf(calls, "describe_instance_status")
                  < IndexOf(calls, "ssh_connect")
           /\ \A c \in {"invoke_shell", "exec_command"} :
                  Has(calls, c) =>
                      IndexOf(calls, "ssh_connect") < IndexOf(calls, c)
           /\ \/ instance_state = "running"
              \/ /\ instance_state = "stopped"
                 /\ Has(calls, "wait_running")
                 /\ IndexOf(calls, "start_instances")
                        < IndexOf(calls, "wait_running")
                 /\ IndexOf(calls, "wait_running")
                        < IndexOf(calls, "ssh_connect")
    /\ fault \in {"probe", "KeyError", "state", "start"} =>
           /\ pc = "done"
           /\ exit_code = 1
           /\ ~Has(calls, "ssh_connect")
           /\ ~SessionReached
           /\ ~Has(calls, "stop_instance")
           /\ ~Has(calls, "stop_instances")

C26_Witness ==
    /\ pc = "loop"
    /\ instance_state = "stopped"
    /\ Has(calls, "wait_running")
    /\ Has(calls, "invoke_shell")

\* C27: the wait-hint sleep is made for the SSH service only, once, and
\* directly after the wait for a start of this invocation has succeeded: not
\* for SSM, not when the instance was found running (as in a second call in
\* a row), and before any SSH connect.
C27_WaitHintAfterStart ==
    /\ service = "ssm" => ~Has(calls, "sleep_wait_ssh")
    /\ Has(calls, "sleep_wait_ssh") =>
           /\ service = "ssh"
           /\ Count(calls, "sleep_wait_ssh") = 1
           /\ Count(calls, "start_instances") = 1
           /\ calls[IndexOf(calls, "sleep_wait_ssh") - 1] = "wait_running"
           /\ Has(calls, "ssh_connect") =>
                  IndexOf(calls, "sleep_wait_ssh")
                      < IndexOf(calls, "ssh_connect")

C27_Witness ==
    /\ pc = "returned"
    /\ service = "ssh"
    /\ Has(calls, "sleep_wait_ssh")

\* C28: a step of the SSH interactive loop that ends the session on an
\* `exit` line forwards nothing, and any other step forwards one input line
\* at most, appended after the lines forwarded before, as it was read, and
\* never a line that says `exit`.
C28_ExitEndsOthersForwarded ==
    [][ pc = "loop" =>
            /\ session_end' = "user_exit" => sent' = sent
            /\ \/ sent' = sent
               \/ \E line \in Lines :
                      ~IsExitLine(line) /\ sent' = Append(sent, line) ]_vars

\* C29: in the SSH interactive loop last_input_time never decreases from one
\* iteration to the next, and an iteration that sets it to the iteration's
\* clock reading, as every iteration that received remote data does, does
\* not end with the timeout outcome.
C29_LastInputMonotone ==
    [][ (pc = "loop" /\ service = "ssh") =>
            /\ last_input_time' >= last_input_time
            /\ last_input_time' = now' => session_end' # "timeout" ]_vars

C29_Witness ==
    /\ service = "ssh"
    /\ session_end = "timeout"
    /\ last_input_time > 0
    /\ Has(calls, "invoke_shell")

\* C30: whenever a ChannelException ended the SSH interactive session, at
\* invoke_shell or inside the loop, the process exits with a code other
\* than 0, whatever the state of the transport at teardown.
C30_ChannelErrorExitsNonZero ==
    (pc = "done" /\ service = "ssh" /\ session_end = "channel_error")
        => exit_code # 0

\* C31: left alone, both interactive loops end.  The SSH loop ends with the
\* timeout outcome no later than the budget plus one turn of the loop after
\* the last remote data; the SSM loop ends with the child terminated no
\* later than the budget plus one turn of the loop after the spawn.
C31_IdleLoopsEnd ==
    /\ [](session_end = "timeout" =>
              now - last_input_time <= timeouts[service] + Quantum(service))
    /\ (pc = "loop") ~> (pc = "finally" /\ session_end = "timeout")
    /\ (pc = "ssm_loop") ~>
           (pc = "ssm_return" /\ session_end = "timeout"
            /\ child = "terminated")

C31_Witness ==
    /\ service = "ssh"
    /\ pc = "done"
    /\ session_end = "timeout"
    /\ last_input_time > 0
    /\ now - last_input_time = SshTimeout + Quantum("ssh")

\* C32: the teardown of ssh_interactive_session_handler asks to stop the
\* instance exactly when the transport is active at that moment; with the
\* transport inactive it closes nothing, asks nothing, requests no stop and
\* leaves the instance as it is.
C32_StopIffTransportActive ==
    [][ (pc = "finally" /\ pc' = "done") =>
            /\ (Count(calls', "confirm_stop") = Count(calls, "confirm_stop") + 1)
                   <=> transport = "active"
            /\ Has(calls', "ssh_close") <=> transport = "active"
            /\ transport # "active" =>
                   /\ calls' = calls
                   /\ power' = power
                   /\ transport' = transport
                   /\ confirm_answer' = confirm_answer ]_vars

C32_Witness ==
    /\ pc = "done"
    /\ service = "ssh"
    /\ session_end = "user_exit"
    /\ transport = "inactive"
    /\ ~Has(calls, "confirm_stop")
    /\ ~Has(calls, "ssh_close")

\* the status the last poll of ssm_command_handler observed
LastPolled == polled[Len(polled)]

\* C33: ssm_command_handler returns 0 exactly when its last poll observed
\* Success and 1 when it observed Failed, Cancelled or TimedOut; it polls
\* again after every other status and never after a terminal one, so the
\* first terminal status observed is the last poll made; the process exits
\* with the handler's return value.
C33_StatusDecidesOutcome ==
    /\ \A i \in 1..(Len(polled) - 1) : polled[i] \notin Terminal
    /\ Len(polled) <= max_retries
    /\ pc = "ssm_poll" =>
           /\ \A i \in DOMAIN polled : polled[i] \notin Terminal
           /\ Len(polled) = retry_count
    /\ (pc \in {"ssm_cmd_return", "done"} /\ Has(calls, "send_command")
        /\ fault # "send") =>
           /\ handler_ret = 0 <=>
                  (Len(polled) > 0 /\ LastPolled = "Success")
           /\ (Len(polled) > 0
               /\ LastPolled \in {"Failed", "Cancelled", "TimedOut"})
                  => handler_ret = 1
           /\ (Len(polled) > 0 /\ LastPolled \in Terminal)
                  => Len(polled) = retry_count + 1
           /\ handler_ret \in {0, 1}
           /\ pc = "done" => exit_code = handler_ret

C33_Witness ==
    /\ pc = "done"
    /\ Len(polled) >= 3
    /\ LastPolled = "Cancelled"
    /\ polled[1] = "Pending"
    /\ handler_ret = 1
    /\ exit_code = 1

====
